---- MODULE Spec2Model ----
(***************************************************************************)
(* A model of the link-layer engine of simple485_remastered_micro.py:      *)
(* the frame codec of send_message, the byte-at-a-time receiver of         *)
(* _process_byte / _receive, the transmit step _transmit and the service   *)
(* tick loop(), together with the serial channel, the direction pin and    *)
(* the millisecond clock they use.                                         *)
(***************************************************************************)
EXTENDS Integers, Sequences, FiniteSets, TLC

\* ------------------------------------------------------------------------
\* Protocol definitions
\* ------------------------------------------------------------------------
MAX_MESSAGE_LEN == 255
LINE_READY_TIME_MS == 10
PACKET_TIMEOUT_MS == 500
FIRST_NODE_ADDRESS == 0
MASTER_ADDRESS == FIRST_NODE_ADDRESS
BROADCAST_ADDRESS == 255
LAST_NODE_ADDRESS == BROADCAST_ADDRESS - 1

\* class ControlSequence
SOH == 1
STX == 2
ETX == 3
EOT == 4
LF == 10
NULL == 0

\* class ReceiverState
IDLE == 0
SOH_RECEIVED == 1
DEST_ADDRESS_RECEIVED == 2
SRC_ADDRESS_RECEIVED == 3
TRANSACTION_ID_RECEIVED == 4
MESSAGE_LEN_RECEIVED == 5
STX_RECEIVED == 6
ETX_RECEIVED == 7
CRC_OK == 8

Byte == 0..255

\* Faulty variant: the broadcast address passes as a node address
is_valid_node_addressMutant(a) == FIRST_NODE_ADDRESS <= a /\ a <= BROADCAST_ADDRESS

is_valid_node_address(a) == FIRST_NODE_ADDRESS <= a /\ a <= LAST_NODE_ADDRESS

is_valid_slave_address(a) == is_valid_node_address(a) /\ a # MASTER_ADDRESS

\* ------------------------------------------------------------------------
\* Bit operations on the integers the code handles (all of them bytes)
\* ------------------------------------------------------------------------
RECURSIVE Xor(_, _)
\* a ^ b
Xor(a, b) ==
    IF a = 0 THEN b
    ELSE IF b = 0 THEN a
    ELSE (((a % 2) + (b % 2)) % 2) + 2 * Xor(a \div 2, b \div 2)

\* b & 240
And240(b) == ((b \div 16) % 16) * 16

\* b & 15
And15(b) == b % 16

\* ~n & 15, for n in 0..15
Not15(n) == 15 - (n % 16)

\* ------------------------------------------------------------------------
\* Frame codec (send_message)
\* ------------------------------------------------------------------------
\* Faulty variant: the low nibble is copied, not complemented
EncodeHighMutant(p) == And240(p) + And15(p)

\* byte = payload[i] & 240; byte = byte | (~(byte >> 4) & 15)
EncodeHigh(p) == And240(p) + Not15(And240(p) \div 16)

\* Faulty variant: the high nibble of the second wire byte is left zero
EncodeLowMutant(p) == And15(p)

\* byte = payload[i] & 15; byte = byte | ((~byte << 4) & 240)
EncodeLow(p) == And15(p) + 16 * Not15(And15(p))

\* The two wire bytes of every payload byte, in order (the loop of send_message)
EncodePayload(payload) ==
    [i \in 1..(2 * Len(payload)) |->
        IF i % 2 = 1 THEN EncodeHigh(payload[(i + 1) \div 2])
                     ELSE EncodeLow(payload[i \div 2])]

RECURSIVE XorRange(_, _, _)
\* payload[lo] ^ ... ^ payload[hi] (0 when empty), by halves to keep the
\* evaluation shallow; ^ is associative
XorRange(payload, lo, hi) ==
    IF lo > hi THEN 0
    ELSE IF lo = hi THEN payload[lo]
    ELSE LET mid == (lo + hi) \div 2
         IN Xor(XorRange(payload, lo, mid), XorRange(payload, mid + 1, hi))

\* crc ^= payload[i], for every i
XorAll(crc, payload) == Xor(crc, XorRange(payload, 1, Len(payload)))

\* crc = self._address ^ dst_address ^ message_len, then ^= every payload byte
SendCrc(self_address, dst_address, payload) ==
    XorAll(Xor(Xor(self_address, dst_address), Len(payload)), payload)

\* text_buffer of send_message
TextBuffer(self_address, dst_address, payload, transaction_id) ==
    <<LF, LF, LF, SOH, dst_address, self_address, transaction_id, Len(payload), STX>>
        \o EncodePayload(payload)
        \o <<ETX, SendCrc(self_address, dst_address, payload), EOT, LF, LF>>

\* ------------------------------------------------------------------------
\* Receiver (ReceivingMessage, ReceivedMessage, _process_byte, _receive)
\* ------------------------------------------------------------------------
\* Python's None in an integer field that has not been assigned yet
None == -1

\* self._receiving_message = None
NoMessage == [none |-> TRUE]

\* ReceivingMessage(timestamp=t)
ReceivingMessage(t) ==
    [timestamp |-> t, dst_address |-> None, src_address |-> None,
     transaction_id |-> None, length |-> None, crc |-> None,
     is_first_nibble |-> TRUE, incoming |-> 0, payload_buffer |-> <<>>]

\* ReceivedMessage(...) built from the reception in progress
ReceivedMessage(m) ==
    [src_address |-> m.src_address, dest_address |-> m.dst_address,
     transaction_id |-> m.transaction_id, length |-> m.length,
     payload |-> m.payload_buffer]

\* (~(((b << 4) & 240) | ((b >> 4) & 15))) & 0xFF == b
is_valid_encoded_byte(b) == 255 - (((b * 16) % 256) + ((b \div 16) % 16)) = b

\* The receiver part of the engine: the three fields _process_byte assigns.
Receiver(st, msg, inbox) ==
    [receiver_state |-> st, receiving_message |-> msg, received_messages |-> inbox]

\* Faulty variant: the reception in progress is kept on a reset
DiscardMutant(r) == Receiver(IDLE, r.receiving_message, r.received_messages)

\* self._receiver_state = IDLE; self._receiving_message = None
Discard(r) == Receiver(IDLE, NoMessage, r.received_messages)

\* Faulty variant: broadcast frames are not accepted
DestAcceptedMutant(dst, self_address) == dst = self_address

\* The destination test of state SOH_RECEIVED
DestAccepted(dst, self_address) == dst = self_address \/ dst = BROADCAST_ADDRESS

\* The length test of state TRANSACTION_ID_RECEIVED
LengthAccepted(length) == 0 < length /\ length <= MAX_MESSAGE_LEN

\* crc = dst_address ^ src_address ^ length, at STX
InitialCrc(m) == Xor(Xor(m.dst_address, m.src_address), m.length)

\* A valid encoded byte in state STX_RECEIVED
Nibble(m, byte) ==
    IF m.is_first_nibble
    THEN [m EXCEPT !.incoming = And240(byte), !.is_first_nibble = FALSE]
    ELSE LET incoming == m.incoming + And15(byte)
         IN [m EXCEPT !.is_first_nibble = TRUE,
                      !.incoming = incoming,
                      !.payload_buffer = Append(m.payload_buffer, incoming),
                      !.crc = Xor(m.crc, incoming)]

\* Faulty variant: a payload shorter than declared is accepted
EtxAcceptedMutant(m) == Len(m.payload_buffer) <= m.length

\* The ETX test of state STX_RECEIVED
EtxAccepted(m) == Len(m.payload_buffer) = m.length

\* Faulty variant: the checksum byte is not compared
CrcAcceptedMutant(m, byte) == TRUE

\* The test of state ETX_RECEIVED
CrcAccepted(m, byte) == byte = m.crc

\* Faulty variant: the terminator is not compared with EOT
DeliverMutant(r, byte) ==
    Receiver(IDLE, NoMessage,
             Append(r.received_messages, ReceivedMessage(r.receiving_message)))

\* State CRC_OK: the message is appended on EOT; the receiver is reset either way
Deliver(r, byte) ==
    Receiver(IDLE, NoMessage,
             IF byte = EOT
             THEN Append(r.received_messages, ReceivedMessage(r.receiving_message))
             ELSE r.received_messages)

\* _process_byte(byte) on receiver r of a node with address self_address at time t
ProcessByte(r, self_address, byte, t) ==
    LET m == r.receiving_message
        st == r.receiver_state
        Go(next, msg) == Receiver(next, msg, r.received_messages)
    IN CASE st = IDLE ->
              IF byte = SOH THEN Go(SOH_RECEIVED, ReceivingMessage(t)) ELSE r
         [] st = SOH_RECEIVED ->
              IF DestAccepted(byte, self_address)
              THEN Go(DEST_ADDRESS_RECEIVED, [m EXCEPT !.dst_address = byte])
              ELSE Discard(r)
         [] st = DEST_ADDRESS_RECEIVED ->
              Go(SRC_ADDRESS_RECEIVED, [m EXCEPT !.src_address = byte])
         [] st = SRC_ADDRESS_RECEIVED ->
              Go(TRANSACTION_ID_RECEIVED, [m EXCEPT !.transaction_id = byte])
         [] st = TRANSACTION_ID_RECEIVED ->
              IF LengthAccepted(byte)
              THEN Go(MESSAGE_LEN_RECEIVED, [m EXCEPT !.length = byte])
              ELSE Discard(r)
         [] st = MESSAGE_LEN_RECEIVED ->
              IF byte = STX
              THEN Go(STX_RECEIVED, [m EXCEPT !.crc = InitialCrc(m)])
              ELSE Discard(r)
         [] st = STX_RECEIVED ->
              IF is_valid_encoded_byte(byte) THEN Go(STX_RECEIVED, Nibble(m, byte))
              ELSE IF byte = ETX
                   THEN IF EtxAccepted(m) THEN Go(ETX_RECEIVED, m) ELSE Discard(r)
                   ELSE Discard(r)
         [] st = ETX_RECEIVED ->
              IF CrcAccepted(m, byte) THEN Go(CRC_OK, m) ELSE Discard(r)
         [] st = CRC_OK -> Deliver(r, byte)

\* Faulty variant: the state test of the NUL filter is inverted
SkippedMutant(r, byte) == byte = NULL /\ r.receiver_state # IDLE

\* The body of the loop of _receive for one byte read from the interface:
\* a NUL read while IDLE is skipped, any other byte updates last-bus-activity
\* and goes through _process_byte.  e is [rcv, last_bus_activity].
Skipped(r, byte) == byte = NULL /\ r.receiver_state = IDLE

\* Faulty variant: the age of the reception is tested at every byte
ReceiveByteMutant(e, self_address, byte, t) ==
    IF Skipped(e.rcv, byte) THEN e
    ELSE [rcv |-> IF /\ e.rcv.receiver_state # IDLE
                     /\ t - e.rcv.receiving_message.timestamp > PACKET_TIMEOUT_MS
                  THEN Discard(e.rcv)
                  ELSE ProcessByte(e.rcv, self_address, byte, t),
          last_bus_activity |-> t]

\* _receive's loop body for one byte: skip, or stamp and _process_byte
ReceiveByte(e, self_address, byte, t) ==
    IF Skipped(e.rcv, byte) THEN e
    ELSE [rcv |-> ProcessByte(e.rcv, self_address, byte, t), last_bus_activity |-> t]

RECURSIVE ReceiveRange(_, _, _, _, _, _)
\* The loop body over bytes[lo..hi] in order, by halves to keep the evaluation
\* shallow (the second half starts from the state the first half leaves)
ReceiveRange(e, self_address, bytes, lo, hi, t) ==
    IF lo > hi THEN e
    ELSE IF lo = hi THEN ReceiveByte(e, self_address, bytes[lo], t)
    ELSE LET mid == (lo + hi) \div 2
             first == ReceiveRange(e, self_address, bytes, lo, mid, t)
         IN \* the test makes TLC compute `first` here, not at the last byte
            IF first.last_bus_activity >= 0
            THEN ReceiveRange(first, self_address, bytes, mid + 1, hi, t)
            ELSE first

\* _receive(): while self._interface.any() > 0, over the buffered bytes
ReceiveAll(e, self_address, bytes, t) ==
    ReceiveRange(e, self_address, bytes, 1, Len(bytes), t)

\* ------------------------------------------------------------------------
\* Bounds of the model
\* ------------------------------------------------------------------------
\* Frames the application may have queued for sending at one time
MaxQueue == 2
\* Transmissions the peers on the bus make in one run
MaxPeerFrames == 2
\* Bytes of a peer transmission that reach the interface between two ticks,
\* unless all of it does
MaxChunk == 1

\* The instants (ms on the clock) at which operations happen: they straddle
\* LINE_READY_TIME_MS (0 < 10 <= 10) and PACKET_TIMEOUT_MS (500 <= 500 < 501).
Instants == {0, 10, 20, 30, 520, 521}

\* ------------------------------------------------------------------------
\* State
\* ------------------------------------------------------------------------
VARIABLES
    address,            \* self._address
    receiver_state,     \* self._receiver_state
    receiving_message,  \* self._receiving_message
    received_messages,  \* self._received_messages
    output_messages,    \* self._output_messages
    last_bus_activity,  \* self._last_bus_activity
    transmit_mode_pin,  \* the level of self._transmit_mode_pin
    now,                \* utime.ticks_ms()
    rx,                 \* bytes buffered in self._interface, not read yet
    line,               \* bytes a peer is transmitting that have not arrived yet
    peer_sent,          \* transmissions the peers have started
    probe,              \* what a peer gave to send_message for the frame under
                        \* test, and how the channel damaged the frame
    ret,                \* what the last call on the engine returned: its kind
                        \* ("True", "False", "None", "ValueError" when it raised,
                        \* "message") and the message read() returned; for
                        \* loop, what its call of _transmit returned
    written,            \* the bytes that call passed to self._interface.write
    pin_writes,         \* the levels that call wrote to the pin, in order
    timeout_logged      \* whether that call logged "Packet timeout, resetting
                        \* receiver state."

engine == <<address, receiver_state, receiving_message, received_messages,
            output_messages, last_bus_activity, transmit_mode_pin>>
observed == <<ret, written, pin_writes, timeout_logged>>
bus == <<rx, line, peer_sent, probe>>
vars == <<engine, now, bus, observed>>

\* available()
available == Len(received_messages)

\* pending_send()
pending_send == Len(output_messages) > 0

\* get_address()
get_address == address

\* A call's result
Returned(kind) == [kind |-> kind, message |-> NoMessage]

\* A step of the environment is no call: nothing is returned, written or toggled
NoCall ==
    /\ ret' = Returned("no call")
    /\ written' = <<>>
    /\ pin_writes' = <<>>
    /\ timeout_logged' = FALSE

\* ------------------------------------------------------------------------
\* Transmit step (_transmit)
\* ------------------------------------------------------------------------
\* Faulty variant: the arguments of ticks_diff are swapped
LineNotReadyMutant(t, lba) == lba - t >= LINE_READY_TIME_MS

\* utime.ticks_diff(get_milliseconds(), self._last_bus_activity) < LINE_READY_TIME_MS
LineNotReady(t, lba) == t - lba < LINE_READY_TIME_MS

\* What the interface does with a write: "ok", or OSError raised by write
\* ("write_error") or by the completion wait ("wait_error").
IoOutcomes == {"ok", "write_error", "wait_error"}

\* Faulty variant: the newest frame is sent, self._output_messages[-1]
MessageToSendMutant(queue) == queue[Len(queue)]

\* message_to_send = self._output_messages[0]
MessageToSend(queue) == Head(queue)

\* self._output_messages.pop(0)
AfterSend(queue) == Tail(queue)

\* Faulty variant: nothing reaches the channel unless the whole attempt succeeds
WrittenMutant(message, io) == IF io = "ok" THEN message ELSE <<>>

\* What reaches the channel of frame `message` under each outcome: all of it,
\* or nothing when write raised
Written(message, io) == IF io = "write_error" THEN <<>> ELSE message

\* Faulty variant: the pin is lowered after the try block, not in `finally`
PinWritesMutant(io) == IF io = "ok" THEN <<TRUE, FALSE>> ELSE <<TRUE>>

\* The levels written to the pin by an attempt: _enable_transmit_mode() first,
\* _disable_transmit_mode() in `finally`
PinWrites(io) == <<TRUE, FALSE>>

\* Faulty variant: self._last_bus_activity is set in `finally`
SendAttemptMutant(queue, lba, io, t_end) ==
    [ret |-> IF io = "ok" THEN "True" ELSE "False",
     output_messages |-> IF io = "ok" THEN AfterSend(queue) ELSE queue,
     last_bus_activity |-> t_end, now |-> t_end,
     written |-> Written(MessageToSend(queue), io), pin_writes |-> PinWrites(io)]

\* The try/except/finally of _transmit on the head frame and what follows it.
\* t_end is the clock when the attempt is over (it sleeps the toggle time).
SendAttempt(queue, lba, io, t_end) ==
    IF io = "ok"
    THEN [ret |-> "True", output_messages |-> AfterSend(queue),
          last_bus_activity |-> t_end, now |-> t_end,
          written |-> Written(MessageToSend(queue), io), pin_writes |-> PinWrites(io)]
    ELSE [ret |-> "False", output_messages |-> queue,
          last_bus_activity |-> lba, now |-> t_end,
          written |-> Written(MessageToSend(queue), io), pin_writes |-> PinWrites(io)]

\* Faulty variant: a frame whose attempt failed is given up
TransmitMutant(queue, lba, t, io, t_end) ==
    IF queue = <<>> \/ LineNotReady(t, lba)
    THEN [ret |-> "False", output_messages |-> queue, last_bus_activity |-> lba,
          now |-> t, written |-> <<>>, pin_writes |-> <<>>]
    ELSE [SendAttempt(queue, lba, io, t_end) EXCEPT !.output_messages = AfterSend(queue)]

\* _transmit() at time t
Transmit(queue, lba, t, io, t_end) ==
    IF queue = <<>> \/ LineNotReady(t, lba)
    THEN [ret |-> "False", output_messages |-> queue, last_bus_activity |-> lba,
          now |-> t, written |-> <<>>, pin_writes |-> <<>>]
    ELSE SendAttempt(queue, lba, io, t_end)

\* The level of the pin after a sequence of writes to it
PinAfter(level, writes) == IF writes = <<>> THEN level ELSE writes[Len(writes)]

\* ------------------------------------------------------------------------
\* Service tick (loop)
\* ------------------------------------------------------------------------
\* Faulty variant: the arguments of ticks_diff are swapped
TimedOutMutant(r, t) ==
    r.receiver_state # IDLE /\ r.receiving_message.timestamp - t > PACKET_TIMEOUT_MS

\* receiver_state != IDLE and ticks_diff(get_milliseconds(), timestamp) > PACKET_TIMEOUT_MS
TimedOut(r, t) ==
    r.receiver_state # IDLE /\ t - r.receiving_message.timestamp > PACKET_TIMEOUT_MS

\* Faulty variant: no timeout check
CheckTimeoutMutant(r, t) == r

\* The timeout check at the end of loop()
CheckTimeout(r, t) == IF TimedOut(r, t) THEN Discard(r) ELSE r

\* The engine's receiver and last-bus-activity as _receive reads them
Receiving ==
    [rcv |-> Receiver(receiver_state, receiving_message, received_messages),
     last_bus_activity |-> last_bus_activity]

\* Faulty variant: the timeout check runs first, before _receive()
LoopMutant(io, t_end) ==
    \E r \in {CheckTimeout(Receiving.rcv, now)} :
    \E e \in {ReceiveAll([rcv |-> r, last_bus_activity |-> last_bus_activity],
                         address, rx, now)} :
    \E tx \in {Transmit(output_messages, e.last_bus_activity, now, io, t_end)} :
       /\ tx.pin_writes # <<>> => t_end > now
       /\ rx' = <<>>
       /\ receiver_state' = e.rcv.receiver_state
       /\ receiving_message' = e.rcv.receiving_message
       /\ received_messages' = e.rcv.received_messages
       /\ output_messages' = tx.output_messages
       /\ last_bus_activity' = tx.last_bus_activity
       /\ transmit_mode_pin' = PinAfter(transmit_mode_pin, tx.pin_writes)
       /\ now' = tx.now
       /\ ret' = Returned(tx.ret)
       /\ written' = tx.written
       /\ pin_writes' = tx.pin_writes
       /\ timeout_logged' = TimedOut(Receiving.rcv, now)
       /\ UNCHANGED <<address, line, peer_sent, probe>>

\* loop(): _receive(), _transmit(), the timeout check.  (Each intermediate
\* result is bound once by \E over a singleton.)
Loop(io, t_end) ==
    \E e \in {ReceiveAll(Receiving, address, rx, now)} :
    \E tx \in {Transmit(output_messages, e.last_bus_activity, now, io, t_end)} :
    \E r \in {CheckTimeout(e.rcv, tx.now)} :
       /\ tx.pin_writes # <<>> => t_end > now
       /\ rx' = <<>>
       /\ receiver_state' = r.receiver_state
       /\ receiving_message' = r.receiving_message
       /\ received_messages' = r.received_messages
       /\ output_messages' = tx.output_messages
       /\ last_bus_activity' = tx.last_bus_activity
       /\ transmit_mode_pin' = PinAfter(transmit_mode_pin, tx.pin_writes)
       /\ now' = tx.now
       /\ ret' = Returned(tx.ret)
       /\ written' = tx.written
       /\ pin_writes' = tx.pin_writes
       /\ timeout_logged' = TimedOut(e.rcv, tx.now)
       /\ UNCHANGED <<address, line, peer_sent, probe>>

\* With nothing to send there is no attempt, whose outcome and end are then
\* immaterial: one choice stands for all.
LoopStep ==
    \E io \in IoOutcomes, t_end \in Instants \cup {now} :
        /\ t_end >= now
        /\ output_messages = <<>> => (io = "ok" /\ t_end = now)
        /\ Loop(io, t_end)

\* ------------------------------------------------------------------------
\* Application calls: send_message, read, set_address
\* ------------------------------------------------------------------------
\* Faulty variant: >= in place of > in the second length test
SendRejectedMutant(payload) == Len(payload) = 0 \/ Len(payload) >= MAX_MESSAGE_LEN

\* The two length tests of send_message
SendRejected(payload) == Len(payload) = 0 \/ Len(payload) > MAX_MESSAGE_LEN

\* self._output_messages after send_message(dst_address, payload, transaction_id)
Enqueue(queue, self_address, dst_address, payload, transaction_id) ==
    Append(queue, TextBuffer(self_address, dst_address, payload, transaction_id))

SendMessage(dst_address, payload, transaction_id) ==
    /\ written' = <<>>
    /\ pin_writes' = <<>>
    /\ timeout_logged' = FALSE
    /\ IF SendRejected(payload)
       THEN /\ ret' = Returned("ValueError")
            /\ UNCHANGED output_messages
       ELSE /\ ret' = Returned("True")
            /\ output_messages' =
                   Enqueue(output_messages, address, dst_address, payload, transaction_id)
    /\ UNCHANGED <<address, receiver_state, receiving_message, received_messages,
                   last_bus_activity, transmit_mode_pin, now, bus>>

\* ReceivedMessage.is_broadcast()
is_broadcast(m) == m.dest_address = BROADCAST_ADDRESS

\* Faulty variant: the override is ignored
RespondRefusedMutant(m, allow_broadcast) == is_broadcast(m)

\* The broadcast test of ReceivedMessage.respond (the originating bus of a
\* message the engine built is the engine, never None)
RespondRefused(m, allow_broadcast) == is_broadcast(m) /\ ~allow_broadcast

\* message.respond(payload, allow_broadcast), on the message read() has just
\* returned: send_message(src_address, payload, transaction_id) on the engine
Respond(payload, allow_broadcast) ==
    /\ ret.kind = "message"
    /\ IF RespondRefused(ret.message, allow_broadcast)
       THEN /\ ret' = Returned("ValueError")
            /\ written' = <<>>
            /\ pin_writes' = <<>>
            /\ timeout_logged' = FALSE
            /\ UNCHANGED <<engine, now, bus>>
       ELSE SendMessage(ret.message.src_address, payload, ret.message.transaction_id)

\* Faulty variant: pop() in place of pop(0)
PopMutant(inbox) ==
    [message |-> inbox[Len(inbox)], rest |-> SubSeq(inbox, 1, Len(inbox) - 1)]

\* self._received_messages.pop(0)
Pop(inbox) == [message |-> Head(inbox), rest |-> Tail(inbox)]

Read ==
    /\ written' = <<>>
    /\ pin_writes' = <<>>
    /\ timeout_logged' = FALSE
    /\ IF Len(received_messages) = 0
       THEN /\ ret' = Returned("ValueError")
            /\ UNCHANGED received_messages
       ELSE /\ ret' = [kind |-> "message", message |-> Pop(received_messages).message]
            /\ received_messages' = Pop(received_messages).rest
    /\ UNCHANGED <<address, receiver_state, receiving_message, output_messages,
                   last_bus_activity, transmit_mode_pin, now, bus>>

\* Faulty variant: a new address aborts the reception in progress
SetAddressMutant(a) ==
    /\ written' = <<>>
    /\ pin_writes' = <<>>
    /\ timeout_logged' = FALSE
    /\ IF ~is_valid_node_address(a)
       THEN /\ ret' = Returned("ValueError")
            /\ UNCHANGED <<address, receiver_state, receiving_message>>
       ELSE /\ ret' = Returned("None")
            /\ address' = a
            /\ receiver_state' = IDLE
            /\ receiving_message' = NoMessage
    /\ UNCHANGED <<received_messages, output_messages, last_bus_activity,
                   transmit_mode_pin, now, bus>>

\* set_address(address): ValueError for an invalid node address
SetAddress(a) ==
    /\ written' = <<>>
    /\ pin_writes' = <<>>
    /\ timeout_logged' = FALSE
    /\ IF ~is_valid_node_address(a)
       THEN /\ ret' = Returned("ValueError")
            /\ UNCHANGED address
       ELSE /\ ret' = Returned("None")
            /\ address' = a
    /\ UNCHANGED <<receiver_state, receiving_message, received_messages,
                   output_messages, last_bus_activity, transmit_mode_pin, now, bus>>

\* ------------------------------------------------------------------------
\* Environment: the clock and the peers on the bus
\* ------------------------------------------------------------------------
Advance(t) ==
    /\ t > now
    /\ now' = t
    /\ NoCall
    /\ UNCHANGED <<engine, bus>>

\* A peer starts transmitting `bytes`
PeerSend(bytes) ==
    /\ line = <<>>
    /\ peer_sent < MaxPeerFrames
    /\ line' = bytes
    /\ peer_sent' = peer_sent + 1
    /\ NoCall
    /\ UNCHANGED <<engine, now, rx, probe>>

\* The next n bytes of the transmission reach the interface's buffer.  The
\* buffer keeps no arrival times, so what arrives between two ticks is one chunk.
Arrive(n) ==
    /\ rx = <<>>
    /\ n <= Len(line)
    /\ n <= MaxChunk \/ n = Len(line)
    /\ rx' = SubSeq(line, 1, n)
    /\ line' = SubSeq(line, n + 1, Len(line))
    /\ NoCall
    /\ UNCHANGED <<engine, now, peer_sent, probe>>

\* The peer stops in the middle of its transmission
PeerAbort ==
    /\ line # <<>>
    /\ line' = <<>>
    /\ NoCall
    /\ UNCHANGED <<engine, now, rx, peer_sent, probe>>

\* ------------------------------------------------------------------------
\* The engine on a bus: inputs, Init, Next
\* ------------------------------------------------------------------------
\* A payload of n bytes: 0, 1, 2, ... (mod 256)
Ramp(n) == [i \in 1..n |-> (i - 1) % 256]

\* What the application passes to send_message
SendDsts == {MASTER_ADDRESS}
SendTids == {0}
SendPayloads == {<<>>, <<90>>, <<3, 0>>}

\* What the application passes to set_address
AddressInputs == {1, 2, BROADCAST_ADDRESS}

\* What the peers transmit: frames of the master to this node's addresses, to
\* everybody and to another node, and a run of idle-line NULs
PeerFrames ==
    {TextBuffer(MASTER_ADDRESS, d, <<90>>, 7) : d \in {1, 2, BROADCAST_ADDRESS}}
IdleFill == <<NULL, NULL>>
PeerTransmissions == PeerFrames \cup {IdleFill}

\* The bus traffic while the application is sending: the start of a frame for
\* this node, which its sender does not finish, and idle fill
Truncated == <<LF, SOH, 1, MASTER_ADDRESS>>
BusyTransmissions == {Truncated, IdleFill}

\* No frame is under test
NoProbe == [none |-> TRUE]

\* Faulty variant: __init__ creates a reception object
ConstructedMutant(a, t) ==
    /\ address = a
    /\ transmit_mode_pin = FALSE
    /\ last_bus_activity = t
    /\ receiver_state = IDLE
    /\ receiving_message = ReceivingMessage(t)
    /\ received_messages = <<>>
    /\ output_messages = <<>>
    /\ now = t
    /\ ret = Returned("None")
    /\ written = <<>>
    /\ pin_writes = <<FALSE>>
    /\ timeout_logged = FALSE

\* The state __init__ leaves, for address a at time t
Constructed(a, t) ==
    /\ address = a
    /\ transmit_mode_pin = FALSE
    /\ last_bus_activity = t
    /\ receiver_state = IDLE
    /\ receiving_message = NoMessage
    /\ received_messages = <<>>
    /\ output_messages = <<>>
    /\ now = t
    /\ ret = Returned("None")
    /\ written = <<>>
    /\ pin_writes = <<FALSE>>
    /\ timeout_logged = FALSE

Init ==
    /\ Constructed(1, 0)
    /\ rx = <<>>
    /\ line = <<>>
    /\ peer_sent = 0
    /\ probe = NoProbe

SendMessageStep ==
    /\ Len(output_messages) < MaxQueue
    /\ \E d \in SendDsts, p \in SendPayloads, t \in SendTids : SendMessage(d, p, t)

SetAddressStep == \E a \in AddressInputs : SetAddress(a)

AdvanceStep == \E t \in Instants : Advance(t)

\* The instants of a run without sends: no line-ready gate to straddle
RxInstants == {0, 500, 501}
RxAdvanceStep == \E t \in RxInstants : Advance(t)

PeerSendStep == \E bytes \in BusyTransmissions : PeerSend(bytes)

ArriveStep == \E n \in 1..Len(line) : Arrive(n)

\* The engine with an application that sends, on a bus with some traffic
Next ==
    \/ LoopStep
    \/ SendMessageStep
    \/ AdvanceStep
    \/ PeerSendStep
    \/ ArriveStep
    \/ PeerAbort

Spec == Init /\ [][Next]_vars

\* The engine with an application that sends payloads of the extreme lengths,
\* on a silent bus
LongPayloads == {<<>>, <<90>>, Ramp(MAX_MESSAGE_LEN), Ramp(MAX_MESSAGE_LEN + 1)}
SendDstsLong == {MASTER_ADDRESS, BROADCAST_ADDRESS}

SendLongStep ==
    /\ Len(output_messages) < MaxQueue
    /\ \E d \in SendDstsLong, p \in LongPayloads, t \in SendTids : SendMessage(d, p, t)

NextSend ==
    \/ LoopStep
    \/ SendLongStep
    \/ AdvanceStep

SpecSend == Init /\ [][NextSend]_vars

\* The engine with an application that reads and changes the node's address,
\* on a bus with frames for several destinations
RxPeerSendStep == \E bytes \in PeerTransmissions : PeerSend(bytes)

NextRx ==
    \/ LoopStep
    \/ Read
    \/ SetAddressStep
    \/ RxAdvanceStep
    \/ RxPeerSendStep
    \/ ArriveStep
    \/ PeerAbort

SpecRx == Init /\ [][NextRx]_vars

\* The two tests of __init__ that raise ValueError
ConstructRejected(a, toggle_time) == ~is_valid_node_address(a) \/ toggle_time <= 0

\* __init__ raised: there is no engine (the pin was never set up), and the
\* fields stand at placeholder values
NotConstructed ==
    /\ address = None
    /\ transmit_mode_pin = FALSE
    /\ last_bus_activity = 0
    /\ receiver_state = IDLE
    /\ receiving_message = NoMessage
    /\ received_messages = <<>>
    /\ output_messages = <<>>
    /\ now = 0
    /\ ret = Returned("ValueError")
    /\ written = <<>>
    /\ pin_writes = <<>>
    /\ timeout_logged = FALSE

\* There is an engine to call
Exists == address # None

\* The engine constructed from any address and settle time, with an
\* application that changes the address to any value
ConstructAddresses == {-1, 0, 1, 2, 254, 255, 256}
ToggleTimes == {-5, 0, 20}

InitAddr ==
    \E a \in ConstructAddresses, toggle_time \in ToggleTimes :
       /\ probe = [address |-> a, toggle_time |-> toggle_time]
       /\ IF ConstructRejected(a, toggle_time) THEN NotConstructed ELSE Constructed(a, 0)
       /\ rx = <<>>
       /\ line = <<>>
       /\ peer_sent = 0

SetAnyAddressStep == Exists /\ \E a \in ConstructAddresses : SetAddress(a)

NextAddr ==
    \/ SetAnyAddressStep
    \/ Exists /\ LoopStep
    \/ Exists /\ RxPeerSendStep
    \/ Exists /\ ArriveStep

SpecAddr == InitAddr /\ [][NextAddr]_vars

\* The engine on a noisy bus: any byte of NoiseBytes may arrive at any time,
\* one between two ticks, once the application has read what was delivered.  The values are the control bytes, the node's
\* address (1, also SOH), the broadcast address and 90, a valid encoded byte
\* that decodes, paired with itself, to 90.
NoiseBytes == {NULL, SOH, STX, ETX, EOT, BROADCAST_ADDRESS, 90}

\* Longest payload a reception is fed
MaxNoisePayload == 2

NoiseArrive(b) ==
    /\ rx = <<>>
    /\ received_messages = <<>>
    /\ (receiver_state = STX_RECEIVED /\ is_valid_encoded_byte(b)) =>
           Len(receiving_message.payload_buffer) < MaxNoisePayload
    /\ rx' = <<b>>
    /\ NoCall
    /\ UNCHANGED <<engine, now, line, peer_sent, probe>>

NoiseStep == \E b \in NoiseBytes : NoiseArrive(b)

NextNoise ==
    \/ LoopStep
    \/ Read
    \/ NoiseStep
    \/ RxAdvanceStep

SpecNoise == Init /\ [][NextNoise]_vars

\* The engine with an application that reads messages and replies to them
ReplyPayloads == {<<>>, <<90>>}
ReplyInstants == {0, 10, 511}

RespondStep ==
    /\ Len(output_messages) < MaxQueue
    /\ \E p \in ReplyPayloads, allow_broadcast \in BOOLEAN : Respond(p, allow_broadcast)

ReplyAdvanceStep == \E t \in ReplyInstants : Advance(t)

NextReply ==
    \/ LoopStep
    \/ Read
    \/ RespondStep
    \/ ReplyAdvanceStep
    \/ RxPeerSendStep
    \/ ArriveStep

SpecReply == Init /\ [][NextReply]_vars

\* ------------------------------------------------------------------------
\* The codec end to end: a frame built by a peer's send_message, possibly
\* damaged in one byte on the channel, fed to the receiver
\* ------------------------------------------------------------------------
\* Longest payload of the frames under test, but for one of MAX_MESSAGE_LEN bytes
MaxPayloadLen == 2

RECURSIVE SeqsUpTo(_, _)
\* The sequences over S of length 1..n
SeqsUpTo(S, n) ==
    IF n = 0 THEN {}
    ELSE LET shorter == SeqsUpTo(S, n - 1)
         IN {<<x>> : x \in S} \cup shorter \cup
            {Append(q, x) : q \in {r \in shorter : Len(r) = n - 1}, x \in S}

\* Inputs of the frame under test.  The values take in control bytes (NULL,
\* SOH, STX, EOT) and a byte that is its own encoding (90); the long payload
\* holds every byte value but 255.
CodecAddresses == {1, 4}
CodecSources == {0, 2}
CodecTids == {7}
CodecPayloadBytes == {0, 90}
CodecPayloads == SeqsUpTo(CodecPayloadBytes, MaxPayloadLen) \cup {Ramp(MAX_MESSAGE_LEN)}

\* Places of a frame the channel may damage: the header bytes after SOH
\* (dst, src, tid, len are bytes 5..8 of the text buffer) and the encoded
\* payload bytes (from byte 10 on)
DstAt == 5
SrcAt == 6
TidAt == 7
LenAt == 8
PayloadAt(payload) == 10..(9 + 2 * Len(payload))
FlawPlaces(payload) ==
    IF Len(payload) <= MaxPayloadLen
    THEN {DstAt, SrcAt, TidAt, LenAt} \cup PayloadAt(payload)
    ELSE {}
\* Values a damaged byte may take: NULL, SOH, ETX, two encoded bytes, 255
FlawValues == {0, 1, 3, 15, 240, 255}

\* No damage: the place before the first byte of a frame
Intact == Len(<<>>)

\* The wire bytes of the frame under test
Damaged(frame, place, value) ==
    IF place = Intact THEN frame ELSE [frame EXCEPT ![place] = value]

ProbeFrame(p) == TextBuffer(p.src, p.dst, p.payload, p.tid)

InitCodec ==
    \E a \in CodecAddresses, src \in CodecSources, tid \in CodecTids,
       payload \in CodecPayloads :
    \E dst \in {a, BROADCAST_ADDRESS} :
    \E place \in {Intact} \cup FlawPlaces(payload), value \in FlawValues :
       /\ place = Intact => value = 0
       /\ place # Intact => value # TextBuffer(src, dst, payload, tid)[place]
       /\ Constructed(a, 0)
       /\ probe = [src |-> src, dst |-> dst, tid |-> tid, payload |-> payload,
                   place |-> place, value |-> value]
       /\ line = Damaged(TextBuffer(src, dst, payload, tid), place, value)
       /\ rx = <<>>
       /\ peer_sent = 1

NextCodec ==
    \/ ArriveStep
    \/ LoopStep

SpecCodec == InitCodec /\ [][NextCodec]_vars

\* ------------------------------------------------------------------------
\* Properties of the frame codec (SpecCodec)

\* The whole transmission has been received and served
CodecDone == line = <<>> /\ rx = <<>>

\* The Received Message a frame built from probe p stands for
ExpectedMessage(p) ==
    [src_address |-> p.src, dest_address |-> p.dst, transaction_id |-> p.tid,
     length |-> Len(p.payload), payload |-> p.payload]

\* C1: a frame built by the encoder for a payload of 1..255 bytes, fed intact
\* to a receiver whose address is the destination or when the destination is
\* broadcast, yields exactly one Received Message with the same source,
\* destination, transaction id, length and payload, and leaves the receiver
\* IDLE; before the last byte is served nothing is delivered twice.
RoundTrip ==
    probe.place = Intact =>
        /\ received_messages \in {<<>>, <<ExpectedMessage(probe)>>}
        /\ CodecDone => /\ received_messages = <<ExpectedMessage(probe)>>
                        /\ receiver_state = IDLE
                        /\ receiving_message = NoMessage

RoundTripWitness ==
    /\ probe.place = Intact
    /\ CodecDone
    /\ Len(probe.payload) = MAX_MESSAGE_LEN
    /\ received_messages = <<ExpectedMessage(probe)>>

\* The original statement of C2: a frame in which any one header byte
\* (destination, source, transaction id, length) or any one encoded payload
\* byte was replaced by a different value is never delivered.
ChecksumSensitivityAsStated ==
    probe.place # Intact => received_messages = <<>>

\* C2: a frame in which the destination, the source or the length byte, or
\* one encoded payload byte, was replaced by a different value is never
\* delivered; the transaction id is outside the checksum, and a frame whose
\* transaction id was replaced is delivered carrying the replaced id.
ChecksumSensitivity ==
    /\ probe.place \notin {Intact, TidAt} => received_messages = <<>>
    /\ (probe.place = TidAt /\ CodecDone) =>
           received_messages =
               <<[ExpectedMessage(probe) EXCEPT !.transaction_id = probe.value]>>

\* A payload byte replaced by another well-formed encoded byte has been
\* received to the end and the frame was dropped
ChecksumSensitivityWitness ==
    /\ probe.place \in PayloadAt(probe.payload)
    /\ is_valid_encoded_byte(probe.value)
    /\ CodecDone
    /\ receiver_state = IDLE
    /\ received_messages = <<>>

\* ------------------------------------------------------------------------
\* Properties of the receiver (SpecRx)

\* The engine's receiver after _process_byte(byte) in the current state
AfterByte(byte) ==
    ProcessByte(Receiver(receiver_state, receiving_message, received_messages),
                address, byte, now)

\* C3: in state SOH_RECEIVED a destination byte equal to the node's current
\* address or to 255 moves the receiver to DEST_ADDRESS_RECEIVED with that
\* destination recorded; any other byte discards the reception, returns the
\* receiver to IDLE and leaves the inbound queue as it was.
DestinationFiltering ==
    receiver_state = SOH_RECEIVED =>
        \A b \in Byte :
            IF b = address \/ b = BROADCAST_ADDRESS
            THEN /\ AfterByte(b).receiver_state = DEST_ADDRESS_RECEIVED
                 /\ AfterByte(b).receiving_message.dst_address = b
                 /\ AfterByte(b).received_messages = received_messages
            ELSE /\ AfterByte(b).receiver_state = IDLE
                 /\ AfterByte(b).receiving_message = NoMessage
                 /\ AfterByte(b).received_messages = received_messages

\* A broadcast destination was accepted by a node whose address is not 255
DestinationFilteringWitness ==
    /\ receiver_state = DEST_ADDRESS_RECEIVED
    /\ receiving_message.dst_address = BROADCAST_ADDRESS
    /\ address # BROADCAST_ADDRESS

\* The state is the one a call of loop() has just left
AfterLoop == ret.kind \in {"True", "False"}

\* Well-formed frames addressed to the node in its current state
FramesToNode ==
    {[src |-> src, dst |-> d, tid |-> 7, payload |-> p] :
        src \in {MASTER_ADDRESS, 3}, d \in {address, BROADCAST_ADDRESS},
        p \in {<<90>>, <<3, 0>>}}

\* What _receive makes of the frame of f, arriving whole now
AfterFrame(f) ==
    ReceiveAll(Receiving, address, TextBuffer(f.src, f.dst, f.payload, f.tid), now).rcv

\* C4: no reception older than 500 ms survives a tick: after loop() the
\* receiver is IDLE or its reception started at most 500 ms ago; a tick that
\* timed a reception out leaves the receiver IDLE with no reception and the
\* inbound queue intact, and a well-formed frame addressed to the node that
\* arrives then is delivered exactly as sent.
TimeoutRecovery ==
    /\ (AfterLoop /\ receiver_state # IDLE) =>
           now - receiving_message.timestamp <= PACKET_TIMEOUT_MS
    /\ timeout_logged =>
           /\ receiver_state = IDLE
           /\ receiving_message = NoMessage
           /\ \A f \in FramesToNode :
                  /\ AfterFrame(f).received_messages =
                         Append(received_messages, ExpectedMessage(f))
                  /\ AfterFrame(f).receiver_state = IDLE

\* A tick has timed out a reception while a later transmission is on its way
TimeoutRecoveryWitness ==
    /\ timeout_logged
    /\ receiver_state = IDLE
    /\ now > PACKET_TIMEOUT_MS

\* C8: read() on a non-empty inbound queue returns its oldest message and
\* removes exactly that one; read() on an empty queue fails and changes
\* nothing of the engine; no other step removes or reorders messages, a tick
\* only appends completed ones at the tail, so available() is the number of
\* completed messages not yet read.
InboundFifo ==
    [][/\ Read =>
            IF received_messages = <<>>
            THEN ret'.kind = "ValueError" /\ UNCHANGED <<engine, now, bus>>
            ELSE /\ ret' = [kind |-> "message", message |-> Head(received_messages)]
                 /\ received_messages' = Tail(received_messages)
                 /\ available' = available - 1
       /\ ~Read =>
            /\ Len(received_messages') >= Len(received_messages)
            /\ SubSeq(received_messages', 1, Len(received_messages)) = received_messages
      ]_vars

\* The older of two different messages was read and the newer one is left
InboundFifoWitness ==
    /\ ret.kind = "message"
    /\ available = 1
    /\ received_messages[1] # ret.message

\* ------------------------------------------------------------------------
\* Properties of the transmit scheduler (Spec, SpecSend)

\* Whether _receive will process a byte of rx in this tick: every byte is
\* processed except a NUL read while the receiver is IDLE
Processed ==
    \/ \E i \in 1..Len(rx) : rx[i] # NULL
    \/ rx # <<>> /\ receiver_state # IDLE

\* last-bus-activity as the gate of this tick's _transmit will read it
GateActivity == IF Processed THEN now ELSE last_bus_activity

\* The queue grew by one frame at its tail
AppendedOne ==
    /\ Len(output_messages') = Len(output_messages) + 1
    /\ SubSeq(output_messages', 1, Len(output_messages)) = output_messages

\* C5: the outbound queue changes only by an append at its tail or by the
\* removal of its head, and the head is removed only by the step that wrote
\* it whole and reported success; whatever a step writes to the channel is
\* the frame at the head of the queue, whatever the I/O outcome.
OutboundFifo ==
    [][/\ \/ output_messages' = output_messages
          \/ AppendedOne
          \/ /\ output_messages # <<>>
             /\ output_messages' = Tail(output_messages)
             /\ written' = Head(output_messages)
             /\ ret'.kind = "True"
       /\ written' # <<>> =>
             /\ output_messages # <<>>
             /\ written' = Head(output_messages)
      ]_vars

\* The first of two different queued frames was sent and removed, and the
\* second is now at the head
OutboundFifoWitness ==
    /\ ret.kind = "True"
    /\ written # <<>>
    /\ output_messages # <<>>
    /\ output_messages[1] # written

\* The step is a call of loop() (an attempt ends at the new clock value)
Tick == \E io \in IoOutcomes : Loop(io, now')

\* What a tick that finds the gate closed does: it writes nothing to the
\* channel or to the pin and leaves the queue unchanged
HeldBack ==
    /\ written' = <<>>
    /\ pin_writes' = <<>>
    /\ output_messages' = output_messages

\* last-bus-activity after a tick: the end of a successful send, or else the
\* time of the latest processed inbound byte, carried over if there is none
ActivityTracked ==
    last_bus_activity' = IF ret'.kind = "True" THEN now' ELSE GateActivity

\* C6: a frame is written only when at least 10 ms have passed since
\* last-bus-activity as it stands after this tick's receive (the time of the
\* latest processed inbound byte, of the latest successful send, or of
\* construction); a tick nearer than that writes nothing, writes nothing to
\* the pin, leaves the queue unchanged and does not report success.  (The
\* last three conjuncts read: every tick with the gate closed is held back
\* and reports no success, and every tick tracks the activity.)
LineIdleGate ==
    [][/\ written' # <<>> => now - GateActivity >= LINE_READY_TIME_MS
       /\ (now - GateActivity < LINE_READY_TIME_MS /\ ~HeldBack) => ~Tick
       /\ (now - GateActivity < LINE_READY_TIME_MS /\ ret'.kind = "True") => ~Tick
       /\ ~ActivityTracked => ~Tick
      ]_vars

\* A tick found a frame queued and the line active less than 10 ms ago
LineIdleGateWitness ==
    /\ ret.kind = "False"
    /\ pin_writes = <<>>
    /\ output_messages # <<>>
    /\ now - last_bus_activity < LINE_READY_TIME_MS
    /\ now > 0

\* C7: send_message with a payload of length 0 or above 255 fails and changes
\* no field of the engine; with a payload of length 1..255 it returns true and
\* appends exactly the frame of that payload at the tail of the outbound
\* queue, changing nothing else.
EnqueueValidation ==
    [][\A d \in SendDstsLong, p \in LongPayloads, t \in SendTids :
          SendMessage(d, p, t) =>
              IF Len(p) = 0 \/ Len(p) > 255
              THEN ret'.kind = "ValueError" /\ UNCHANGED <<engine, now, bus>>
              ELSE /\ ret'.kind = "True"
                   /\ AppendedOne
                   /\ output_messages'[Len(output_messages')] = TextBuffer(address, d, p, t)
                   /\ UNCHANGED <<address, receiver_state, receiving_message,
                                  received_messages, last_bus_activity,
                                  transmit_mode_pin, now, bus>>
      ]_vars

\* A payload of 255 bytes was accepted behind another frame
EnqueueValidationWitness ==
    /\ ret.kind = "True"
    /\ pin_writes = <<>>
    /\ Len(output_messages) = 2
    /\ output_messages[2][LenAt] = MAX_MESSAGE_LEN
    /\ Len(output_messages[2]) = 14 + 2 * MAX_MESSAGE_LEN

\* C9: a send attempt whose write or completion wait fails reports failure,
\* leaves the outbound queue as it was and does not set last-bus-activity;
\* one that succeeds writes the head frame, removes exactly it, sets
\* last-bus-activity to the time the attempt ends and reports success.  (An
\* attempt takes time; the tick that makes it ends at the new clock value.)
SendOutcome ==
    [][\A io \in IoOutcomes :
          (/\ output_messages # <<>>
           /\ now - GateActivity >= LINE_READY_TIME_MS
           /\ now' > now
           /\ Loop(io, now')) =>
              IF io = "ok"
              THEN /\ ret'.kind = "True"
                   /\ written' = Head(output_messages)
                   /\ output_messages' = Tail(output_messages)
                   /\ last_bus_activity' = now'
              ELSE /\ ret'.kind = "False"
                   /\ output_messages' = output_messages
                   /\ last_bus_activity' = GateActivity
      ]_vars

\* The completion wait failed after the frame was written: the frame is
\* still queued and last-bus-activity is older than the attempt
SendOutcomeWitness ==
    /\ ret.kind = "False"
    /\ written # <<>>
    /\ output_messages # <<>>
    /\ written = output_messages[1]
    /\ last_bus_activity < now

\* C10: the pin is low in every state between public operations; it is
\* driven high only by a tick that makes a send attempt (a frame is queued
\* and the line-idle gate is open), and the last level such a tick writes is
\* low, whatever the outcome of the attempt.
DirectionControl ==
    /\ [](transmit_mode_pin = FALSE)
    /\ [][(\E i \in 1..Len(pin_writes') : pin_writes'[i]) =>
             /\ output_messages # <<>>
             /\ now - GateActivity >= LINE_READY_TIME_MS
             /\ pin_writes'[Len(pin_writes')] = FALSE
             /\ LoopStep
         ]_vars

\* A failed attempt drove the pin high and then low
DirectionControlWitness ==
    /\ ret.kind = "False"
    /\ pin_writes = <<TRUE, FALSE>>
    /\ transmit_mode_pin = FALSE

\* ------------------------------------------------------------------------
\* Idle fill (SpecRx)

\* Longest run of NUL bytes tried on an idle receiver
MaxIdleRun == 3

\* A run of n NUL bytes
IdleRun(n) == [i \in 1..n |-> NULL]

\* The bytes buffered in the interface are NUL bytes, at least one
IdleFillBuffered == rx # <<>> /\ \A i \in 1..Len(rx) : rx[i] = NULL

\* C11: NUL bytes read while the receiver is IDLE change nothing: _receive
\* on a run of NUL bytes of any length leaves the receiver, the inbound
\* queue and last-bus-activity as they were, and a tick that finds only NUL
\* bytes buffered while IDLE leaves the receiver IDLE with no reception, the
\* inbound queue unchanged, and last-bus-activity unchanged unless that
\* tick ends a successful send.
IdleFillImmunity ==
    /\ [](receiver_state = IDLE =>
            \A n \in 1..MaxIdleRun :
                ReceiveAll(Receiving, address, IdleRun(n), now) = Receiving)
    /\ [][(receiver_state = IDLE /\ IdleFillBuffered /\ Tick) =>
             /\ receiver_state' = IDLE
             /\ receiving_message' = NoMessage
             /\ received_messages' = received_messages
             /\ ret'.kind # "True" => last_bus_activity' = last_bus_activity
         ]_vars

\* The only transmission so far is idle fill; a tick has read its first NUL
\* some time after the last bus activity, and the second is still to come
IdleFillImmunityWitness ==
    /\ peer_sent = 1
    /\ line = <<NULL>>
    /\ rx = <<>>
    /\ AfterLoop
    /\ receiver_state = IDLE
    /\ received_messages = <<>>
    /\ last_bus_activity < now

\* ------------------------------------------------------------------------
\* Replies (SpecReply)

\* C12: respond(payload) on the message just read enqueues one frame at the
\* tail of the engine's outbound queue, addressed to the message's source,
\* sent from the node's address and carrying the message's transaction id;
\* on a broadcast message without the override it fails and the outbound
\* queue is unchanged, and with the override it enqueues as for a unicast
\* message.  (An empty payload is refused as by send_message.)
Reply ==
    [][\A p \in ReplyPayloads, allow_broadcast \in BOOLEAN :
          Respond(p, allow_broadcast) =>
              IF ret.message.dest_address = BROADCAST_ADDRESS /\ ~allow_broadcast
              THEN ret'.kind = "ValueError" /\ UNCHANGED <<engine, now, bus>>
              ELSE IF Len(p) = 0
              THEN ret'.kind = "ValueError" /\ UNCHANGED <<engine, now, bus>>
              ELSE /\ ret'.kind = "True"
                   /\ AppendedOne
                   /\ \E f \in {output_messages'[Len(output_messages')]} :
                         /\ f[DstAt] = ret.message.src_address
                         /\ f[SrcAt] = address
                         /\ f[TidAt] = ret.message.transaction_id
                         /\ f = TextBuffer(address, ret.message.src_address, p,
                                           ret.message.transaction_id)
      ]_vars

\* A reply to the master's frame has been enqueued behind another one
ReplyWitness ==
    /\ ret.kind = "True"
    /\ written = <<>>
    /\ Len(output_messages) = 2
    /\ output_messages[2][DstAt] = MASTER_ADDRESS
    /\ output_messages[2][TidAt] = 7

\* ------------------------------------------------------------------------
\* Addresses (SpecAddr)

\* C13: construction fails exactly when the address is outside 0..254 or the
\* settle time is not strictly positive; set_address(a) fails for a outside
\* 0..254 leaving the address unchanged, and otherwise makes get_address()
\* return a; so the address of an engine is always in 0..254, never 255;
\* is_valid_slave_address(a) holds iff 1 <= a <= 254.
AddressValidity ==
    /\ [](/\ ~Exists <=> (probe.address \notin 0..254 \/ probe.toggle_time <= 0)
          /\ ~Exists => ret.kind = "ValueError"
          /\ Exists => get_address \in 0..254 /\ get_address # 255
          /\ is_valid_slave_address(probe.address) <=> probe.address \in 1..254)
    /\ [][\A a \in ConstructAddresses :
             SetAddress(a) =>
                 IF a \notin 0..254
                 THEN ret'.kind = "ValueError" /\ UNCHANGED <<engine, now, bus>>
                 ELSE ret'.kind = "None" /\ get_address' = a
         ]_vars

\* An engine constructed with address 0 now has address 254, and its last
\* set_address was refused
AddressValidityWitness ==
    /\ Exists
    /\ probe.address = 0
    /\ get_address = 254
    /\ ret.kind = "ValueError"

\* ------------------------------------------------------------------------
\* The receiver under arbitrary bytes (SpecNoise)

\* Byte b, processed in the current state, completes a frame
Completes(b) == receiver_state = CRC_OK /\ b = EOT

\* Byte b, processed in the current state, is a protocol violation: address
\* mismatch, length 0, missing STX, invalid data byte, ETX with the wrong
\* decoded length, checksum mismatch, terminator other than EOT
Violates(b) ==
    \/ receiver_state = SOH_RECEIVED /\ b # address /\ b # BROADCAST_ADDRESS
    \/ receiver_state = TRANSACTION_ID_RECEIVED /\ b = 0
    \/ receiver_state = MESSAGE_LEN_RECEIVED /\ b # STX
    \/ receiver_state = STX_RECEIVED /\ ~is_valid_encoded_byte(b) /\ b # ETX
    \/ receiver_state = STX_RECEIVED /\ b = ETX
           /\ Len(receiving_message.payload_buffer) # receiving_message.length
    \/ receiver_state = ETX_RECEIVED /\ b # receiving_message.crc
    \/ receiver_state = CRC_OK /\ b # EOT

\* The inbound queue once the frame in progress is delivered
Delivered ==
    Append(received_messages,
           [src_address |-> receiving_message.src_address,
            dest_address |-> receiving_message.dst_address,
            transaction_id |-> receiving_message.transaction_id,
            length |-> receiving_message.length,
            payload |-> receiving_message.payload_buffer])

\* Receiver r is what processing b in the current state must give, as far as
\* the inbound queue and the discards go
SingleSuccess(b, r) ==
    /\ r.received_messages = IF Completes(b) THEN Delivered ELSE received_messages
    /\ Violates(b) => r.receiver_state = IDLE /\ r.receiving_message = NoMessage

\* The states in which all 256 byte values are tried: those at time 0 between
\* a tick and the next arrival (_process_byte reads the clock only to stamp
\* SOH, so the receptions in progress at time 0 are those of any time)
Sampled == now = 0 /\ rx = <<>> /\ AfterLoop

\* C14: the inbound queue grows only when EOT is processed in state CRC_OK,
\* by exactly the message of the reception in progress; processing any other
\* byte in any state leaves it unchanged, as does every step but read(); and
\* every protocol violation leaves the receiver IDLE with no reception.
SingleSuccessPath ==
    /\ [](Sampled => \A b \in Byte : SingleSuccess(b, AfterByte(b)))
    /\ [][IF Len(rx) = 1 /\ rx' = <<>>
          THEN SingleSuccess(rx[1], Receiver(receiver_state', receiving_message',
                                             received_messages'))
          ELSE received_messages' = received_messages
                  \/ (received_messages # <<>>
                         /\ received_messages' = Tail(received_messages)
                         /\ ret'.kind = "message")
         ]_vars

\* A tick has just delivered a message out of noise
SingleSuccessPathWitness ==
    /\ AfterLoop
    /\ rx = <<>>
    /\ receiver_state = IDLE
    /\ Len(received_messages) = 1
    /\ received_messages[1].payload = <<90>>

\* Receiver r makes the next byte, or the timeout check, read an attribute of
\* None: every state but IDLE reads self._receiving_message
RaisesAttributeError(r) == r.receiver_state # IDLE /\ r.receiving_message = NoMessage

\* A reset and nothing else: the receiver is IDLE without a reception, the
\* tick has returned, and the queues, the address and the pin are untouched
OnlyReset ==
    /\ receiver_state' = IDLE
    /\ receiving_message' = NoMessage
    /\ received_messages' = received_messages
    /\ AfterLoop'
    /\ UNCHANGED <<address, output_messages, transmit_mode_pin>>

\* C15: whatever bytes have arrived and whenever the ticks run, a tick can
\* always be made and returns normally: no state makes the receiver or the
\* timeout check read a reception that does not exist, before or after any
\* byte; and a tick that processes a protocol violation, or finds the
\* reception timed out, only resets the receiver to IDLE.
Robustness ==
    /\ [](/\ ~RaisesAttributeError(Receiving.rcv)
          /\ \A b \in NoiseBytes : ~RaisesAttributeError(AfterByte(b))
          /\ ENABLED LoopStep)
    /\ [][((Len(rx) = 1 /\ rx' = <<>> /\ Violates(rx[1])) \/ timeout_logged')
             => OnlyReset]_vars

\* A tick has both processed a byte of a reception and then reset it on timeout
RobustnessWitness ==
    /\ AfterLoop
    /\ timeout_logged
    /\ last_bus_activity = now
    /\ now = 501
    /\ receiver_state = IDLE
    /\ receiving_message = NoMessage

\* dest XOR src XOR length XOR every payload byte of reception m
Checksum(m) ==
    XorAll(Xor(Xor(m.dst_address, m.src_address), m.length), m.payload_buffer)

\* A tick processes byte rx[1] and takes the receiver from state `from` to `to`
Moves(from, to) ==
    Len(rx) = 1 /\ rx' = <<>> /\ receiver_state = from /\ receiver_state' = to

\* C16: every message in the inbound queue has a declared length in 1..255, a
\* payload of exactly that many bytes and a destination equal to 255 or to the
\* node's address (which this specification never changes); the destination
\* of a reception is the byte accepted against the address held when it was
\* processed and stays what it was; a reception is accepted past its checksum
\* byte only when that byte equals dest XOR src XOR length XOR every payload
\* byte, with a payload of the declared length; and the message delivered is
\* the reception so accepted.
WellFormedDeliveries ==
    /\ [](\A i \in 1..Len(received_messages) :
             /\ received_messages[i].length \in 1..MAX_MESSAGE_LEN
             /\ Len(received_messages[i].payload) = received_messages[i].length
             /\ received_messages[i].dest_address \in {address, BROADCAST_ADDRESS})
    /\ [](receiver_state \in {ETX_RECEIVED, CRC_OK} =>
             /\ receiving_message.length \in 1..MAX_MESSAGE_LEN
             /\ Len(receiving_message.payload_buffer) = receiving_message.length
             /\ receiving_message.dst_address \in {address, BROADCAST_ADDRESS}
             /\ receiving_message.crc = Checksum(receiving_message))
    /\ [][/\ Moves(SOH_RECEIVED, DEST_ADDRESS_RECEIVED) =>
                /\ rx[1] \in {address, BROADCAST_ADDRESS}
                /\ receiving_message'.dst_address = rx[1]
          /\ (receiver_state \notin {IDLE, SOH_RECEIVED} /\ receiver_state' # IDLE) =>
                receiving_message'.dst_address = receiving_message.dst_address
          /\ Moves(ETX_RECEIVED, CRC_OK) =>
                /\ rx[1] = Checksum(receiving_message)
                /\ receiving_message' = receiving_message
          /\ Moves(CRC_OK, IDLE) /\ rx[1] = EOT =>
                received_messages' = Delivered
         ]_vars

\* A broadcast of two payload bytes has been delivered out of noise
WellFormedDeliveriesWitness ==
    /\ AfterLoop
    /\ Len(received_messages) = 1
    /\ received_messages[1].dest_address = BROADCAST_ADDRESS
    /\ received_messages[1].length = 2
    /\ received_messages[1].payload = <<90, 90>>

\* ------------------------------------------------------------------------
\* The order of the three parts of a tick (SpecReply)

\* The queue with at most its head frame gone
HeadGone(queue) == {queue} \cup (IF queue = <<>> THEN {} ELSE {Tail(queue)})

\* Nothing, or the head frame of the queue
HeadOf(queue) == {<<>>} \cup (IF queue = <<>> THEN {} ELSE {Head(queue)})

\* C17: a tick empties the channel buffer and leaves the inbound queue that
\* passing every buffered byte, in order, through the receiver gives; the
\* send attempt comes after that (it is made only when the line has been idle
\* for 10 ms counting the bytes just processed) and is at most one: the pin is
\* raised and lowered at most once, what is written is nothing or the head
\* frame, and at most the head frame leaves the outbound queue; the timeout
\* check comes last: it is applied to the receiver as the buffered bytes left
\* it, at the time the send attempt ended.
TickStructure ==
    [][Tick =>
         \E e \in {ReceiveAll(Receiving, address, rx, now)} :
            /\ rx' = <<>>
            /\ received_messages' = e.rcv.received_messages
            /\ pin_writes' \in {<<>>, <<TRUE, FALSE>>}
            /\ pin_writes' # <<>> =>
                  /\ output_messages # <<>>
                  /\ now - e.last_bus_activity >= LINE_READY_TIME_MS
            /\ pin_writes' = <<>> => written' = <<>> /\ output_messages' = output_messages
            /\ written' \in HeadOf(output_messages)
            /\ output_messages' \in HeadGone(output_messages)
            /\ IF /\ e.rcv.receiver_state # IDLE
                  /\ now' - e.rcv.receiving_message.timestamp > PACKET_TIMEOUT_MS
               THEN receiver_state' = IDLE /\ receiving_message' = NoMessage
               ELSE /\ receiver_state' = e.rcv.receiver_state
                    /\ receiving_message' = e.rcv.receiving_message
      ]_vars

\* A tick has sent a frame and then found the reception timed out, at the
\* time the send ended
TickStructureWitness ==
    /\ AfterLoop
    /\ ret.kind = "True"
    /\ written # <<>>
    /\ timeout_logged
    /\ receiver_state = IDLE
    /\ now = 520

\* ------------------------------------------------------------------------
\* The payload accumulator (SpecNoise)

\* C18: in every state with a reception in progress whose length has been
\* declared, the payload accumulated so far is no longer than that length.
\* (The code appends every decoded byte and compares the lengths only at ETX.)
BoundedAccumulator ==
    (receiver_state # IDLE /\ receiving_message.length # None) =>
        Len(receiving_message.payload_buffer) <= receiving_message.length

\* ------------------------------------------------------------------------
\* set_address during a reception (SpecRx)

\* Addresses and bytes tried against the reception in progress
OtherAddresses == {1, 2, 254}
NextBytes == {NULL, SOH, STX, ETX, EOT, BROADCAST_ADDRESS, 90}

\* C19: set_address changes neither the receiver state, nor the reception in
\* progress, nor the inbound queue; the destination byte is accepted or
\* discarded against the address held when it is processed; in every later
\* state the next byte is processed the same way whatever the address is, the
\* recorded destination stays what it was, and the frame that completes is
\* delivered with that destination, equal to the node's address or not.
AddressChangeDuringReception ==
    /\ [](receiver_state = SOH_RECEIVED =>
             \A b \in NextBytes :
                 (AfterByte(b).receiver_state = DEST_ADDRESS_RECEIVED)
                     <=> (b = address \/ b = BROADCAST_ADDRESS))
    /\ [](receiver_state \notin {IDLE, SOH_RECEIVED} =>
             \A b \in NextBytes, a \in OtherAddresses :
                 ProcessByte(Receiving.rcv, a, b, now) = AfterByte(b))
    /\ [][/\ \A a \in AddressInputs :
                SetAddress(a) =>
                    UNCHANGED <<receiver_state, receiving_message, received_messages>>
          /\ (Len(rx) <= 1 /\ receiver_state \notin {IDLE, SOH_RECEIVED}
                 /\ receiver_state' # IDLE) =>
                receiving_message'.dst_address = receiving_message.dst_address
          /\ (Moves(CRC_OK, IDLE) /\ rx[1] = EOT) => received_messages' = Delivered
         ]_vars

\* set_address has just given the node an address other than the destination
\* of the reception, which is past its checksum
AddressChangeDuringReceptionWitness ==
    /\ ret.kind = "None"
    /\ receiver_state = CRC_OK
    /\ receiving_message.dst_address = 1
    /\ address = 2

\* ------------------------------------------------------------------------
\* The age of a reception when a tick returns (SpecReply)

\* The reception in progress is older than the packet timeout at time t
Stale(t) ==
    receiver_state # IDLE /\ t - receiving_message.timestamp > PACKET_TIMEOUT_MS

\* C20: when a tick returns, the receiver is IDLE or its reception started at
\* most 500 ms before; the age is counted from the time SOH was processed,
\* which no later byte changes: a reception older than 500 ms when the tick
\* ends does not outlive it, bytes of it processed in that tick or not (what
\* is in progress afterwards, if anything, started in this tick), and a
\* reception of 500 ms or less that receives nothing is left as it is.
TimeoutBound ==
    [][/\ Tick =>
            /\ receiver_state' = IDLE
                  \/ now' - receiving_message'.timestamp <= PACKET_TIMEOUT_MS
            /\ Stale(now') =>
                  receiver_state' = IDLE \/ receiving_message'.timestamp = now
            /\ (Stale(now') /\ Len(rx) <= 1) =>
                  receiver_state' = IDLE /\ receiving_message' = NoMessage
            /\ (receiver_state # IDLE /\ ~Stale(now') /\ rx = <<>>) =>
                  /\ UNCHANGED <<receiver_state, receiving_message>>
                  /\ ~timeout_logged'
            /\ (receiver_state = IDLE /\ receiver_state' # IDLE) =>
                  receiving_message'.timestamp = now
       /\ (receiver_state # IDLE /\ receiver_state' # IDLE) =>
              \/ receiving_message'.timestamp = receiving_message.timestamp
              \/ receiving_message'.timestamp = now /\ Len(rx) > 1
      ]_vars

\* A tick has processed a byte of a reception and reset the reception, which
\* began more than 500 ms before
TimeoutBoundWitness ==
    /\ ret.kind = "False"
    /\ timeout_logged
    /\ now - last_bus_activity = 0
    /\ now > PACKET_TIMEOUT_MS
    /\ receiver_state = IDLE

\* ------------------------------------------------------------------------
\* The engine ticked for ever (SpecLive): the application queues its frames
\* at start-up, the peers make a bounded number of transmissions that start
\* no reception, sends may fail any number of times, and the clock, of which
\* the engine uses differences only, is re-based so that it never runs out
\* ------------------------------------------------------------------------
\* The clock values of this specification
LiveInstants == {0, 10, 20, 30}

\* What the peers transmit: framing padding and idle fill
LiveTransmissions == {<<LF>>, IdleFill}

\* loop(), its send attempt ending at one of LiveInstants
LiveLoopStep ==
    \E io \in IoOutcomes, t_end \in LiveInstants \cup {now} :
        /\ t_end >= now
        /\ output_messages = <<>> => (io = "ok" /\ t_end = now)
        /\ Loop(io, t_end)

\* loop() making a send attempt that the interface carries through
SentOk ==
    \E t_end \in LiveInstants :
        /\ output_messages # <<>>
        /\ t_end > now
        /\ Loop("ok", t_end)
        /\ ret'.kind = "True"

\* send_message during start-up
LiveSendStep == now = 0 /\ SendMessageStep

LiveAdvanceStep == \E t \in LiveInstants : Advance(t)

LivePeerSendStep == \E bytes \in LiveTransmissions : PeerSend(bytes)

\* The origin of utime.ticks_ms() moves by d: every stored tick value moves
\* with it, so every ticks_diff stays what it was; an activity older than the
\* new origin is kept at the origin, where it is still 10 ms or more in the past
Rebase(d) ==
    /\ receiver_state = IDLE
    /\ now - d >= LINE_READY_TIME_MS
    /\ now' = now - d
    /\ last_bus_activity' = IF last_bus_activity >= d THEN last_bus_activity - d ELSE 0
    /\ UNCHANGED <<address, receiver_state, receiving_message, received_messages,
                   output_messages, transmit_mode_pin, bus, observed>>

RebaseStep == Rebase(LINE_READY_TIME_MS)

NextLive ==
    \/ LiveLoopStep
    \/ LiveSendStep
    \/ LiveAdvanceStep
    \/ LivePeerSendStep
    \/ ArriveStep
    \/ RebaseStep

\* Time passes, ticks keep occurring, and the interface does not fail for ever:
\* a send attempt that is possible again and again is carried through at last
FairLive ==
    /\ WF_vars(LiveAdvanceStep)
    /\ WF_vars(RebaseStep)
    /\ SF_vars(LiveLoopStep)
    /\ SF_vars(SentOk)

SpecLive == Init /\ [][NextLive]_vars /\ FairLive

\* C21: a tick on which the queue is not empty and the line has been idle for
\* 10 ms, counting the bytes processed in that tick, attempts the head frame,
\* however many attempts have failed before; a tick that does not report
\* success leaves the queue as it was, and whatever a tick writes is the head
\* frame, so a failing head frame is never dropped and nothing behind it is
\* sent; and when ticks keep occurring, the interface stops failing and the
\* bus falls quiet, a pending frame leads to a successful send of the head
\* frame and to an empty outbound queue (pending_send() false).
SendLiveness ==
    /\ [][Tick =>
            /\ (output_messages # <<>> /\ now - GateActivity >= LINE_READY_TIME_MS) =>
                  /\ pin_writes' = <<TRUE, FALSE>>
                  /\ ret'.kind = "False" => output_messages' = output_messages
            /\ ret'.kind = "False" => output_messages' = output_messages
            /\ written' # <<>> => written' = Head(output_messages)
            /\ ret'.kind = "True" =>
                  /\ written' = Head(output_messages)
                  /\ output_messages' = Tail(output_messages)
         ]_vars
    /\ pending_send ~> (ret.kind = "True" /\ written # <<>>)
    /\ pending_send ~> ~pending_send

\* Both frames of the application have been sent, the second after the peers'
\* transmissions
SendLivenessWitness ==
    /\ ~pending_send
    /\ ret.kind = "True"
    /\ written = TextBuffer(1, MASTER_ADDRESS, <<3, 0>>, 0)
    /\ peer_sent = MaxPeerFrames
    /\ line = <<>>

\* ------------------------------------------------------------------------
\* One payload byte, of any value, on its way from a peer's send_message to
\* this node's inbound queue (SpecEncode)
\* ------------------------------------------------------------------------
\* The values of ControlSequence
ControlValues == {NULL, SOH, STX, ETX, EOT, LF}

\* The payload byte under test is any byte
InitEncode ==
    /\ Constructed(1, 0)
    /\ rx = <<>>
    /\ line = <<>>
    /\ peer_sent = 0
    /\ probe \in {[byte |-> b] : b \in Byte}

\* The master's send_message(address, bytes([probe.byte]), 7), transmitted
PeerEncodeStep ==
    /\ peer_sent = 0
    /\ PeerSend(TextBuffer(MASTER_ADDRESS, address, <<probe.byte>>, 7))

NextEncode ==
    \/ PeerEncodeStep
    \/ ArriveStep
    \/ LoopStep

SpecEncode == InitEncode /\ [][NextEncode]_vars

\* The two wire bytes send_message produces for the byte under test
Wire == EncodePayload(<<probe.byte>>)

\* C22: both wire bytes of the payload byte pass the receiver's validity test
\* (which is: swapping the nibbles and complementing gives the byte back); the
\* first carries the byte's high nibble in its top 4 bits, the second its low
\* nibble in its bottom 4 bits; no control value passes the validity test, so
\* no wire byte of the payload is a control value; a receiver in the body of a
\* frame takes each wire byte as data and no control value as data; and the
\* payload delivered is the byte that was sent.
EncodingDisjointness ==
    /\ Len(Wire) = 2
    /\ \A i \in 1..2 :
          /\ is_valid_encoded_byte(Wire[i])
          /\ 255 - (And15(Wire[i]) * 16 + Wire[i] \div 16) = Wire[i]
          /\ Wire[i] \notin ControlValues
    /\ Wire[1] \div 16 = probe.byte \div 16
    /\ Wire[2] % 16 = probe.byte % 16
    /\ \A c \in ControlValues : ~is_valid_encoded_byte(c)
    /\ receiver_state = STX_RECEIVED =>
          /\ \A i \in 1..2 :
                /\ AfterByte(Wire[i]).receiver_state = STX_RECEIVED
                /\ AfterByte(Wire[i]).receiving_message # receiving_message
          /\ \A c \in ControlValues :
                AfterByte(c).receiver_state \in {IDLE, ETX_RECEIVED}
    /\ \A i \in 1..Len(received_messages) :
          received_messages[i].payload = <<probe.byte>>

\* A payload byte whose value is that of the control byte LF has been
\* delivered
EncodingDisjointnessWitness ==
    /\ probe.byte = LF
    /\ available = 1
    /\ received_messages[1].payload = <<LF>>
    /\ receiver_state = IDLE

\* ------------------------------------------------------------------------
\* The end of the body (SpecNoise)

\* C23: ETX is accepted only when no first nibble is waiting for its second:
\* a reception that is past ETX has a body of complete pairs of encoded bytes.
\* (The code compares the number of decoded bytes with the declared length
\* and does not look at the pending nibble.)
CompleteNibblePairs ==
    receiver_state \in {ETX_RECEIVED, CRC_OK} => receiving_message.is_first_nibble

\* ------------------------------------------------------------------------
\* The receiver state and the reception object (SpecRx)

\* Receiver r is IDLE exactly when it has no reception object
Consistent(r) == (r.receiver_state = IDLE) <=> (r.receiving_message = NoMessage)

\* C24: in every reachable state the receiver state is IDLE if and only if
\* there is no reception in progress, and the same is true after whatever
\* byte comes next; so whenever the state is not IDLE the reception object is
\* there, with the timestamp the timeout check reads, which is not in the
\* future.
ReceiverStateConsistency ==
    /\ Consistent(Receiving.rcv)
    /\ \A b \in NextBytes : Consistent(AfterByte(b))
    /\ receiver_state # IDLE =>
          /\ "timestamp" \in DOMAIN receiving_message
          /\ receiving_message.timestamp \in 0..now

\* A tick has timed a reception out on a node whose address was changed and
\* which holds an unread message
ReceiverStateConsistencyWitness ==
    /\ timeout_logged
    /\ address = 2
    /\ available > 0
    /\ receiver_state = IDLE
    /\ receiving_message = NoMessage

\* ------------------------------------------------------------------------
\* A reception completed after its time (SpecReply)

LiveFrames ==
    {TextBuffer(1, d, p, t) : d \in SendDsts, p \in SendPayloads \ {<<>>}, t \in SendTids}

\* C26: a send attempt whose write completes and whose completion wait fails
\* has put the whole head frame on the channel, reports failure and leaves
\* the frame at the head of the queue, with last-bus-activity not set, so the
\* gate stays open for it; ticks going on, the same frame is written again by
\* the attempt that succeeds; and a frame leaves the queue only in a tick
\* that reports success, one frame per such tick, from the head.
DuplicateTransmission ==
    /\ [][/\ \A t_end \in LiveInstants :
                (/\ output_messages # <<>>
                 /\ t_end > now
                 /\ Loop("wait_error", t_end)
                 /\ pin_writes' # <<>>) =>
                    /\ written' = Head(output_messages)
                    /\ output_messages' = output_messages
                    /\ ret'.kind = "False"
                    /\ last_bus_activity' = GateActivity
                    /\ now' - last_bus_activity' >= LINE_READY_TIME_MS
          /\ Tick =>
                /\ output_messages' \in HeadGone(output_messages)
                /\ (output_messages' # output_messages) <=> (ret'.kind = "True")
          /\ ~Tick => Len(output_messages') >= Len(output_messages)
         ]_vars
    /\ [](ret.kind = "False" /\ written # <<>> =>
             /\ pending_send
             /\ written = Head(output_messages))
    /\ \A f \in LiveFrames :
          (ret.kind = "False" /\ written = f) ~> (ret.kind = "True" /\ written = f)

\* The head frame has been written whole, the wait has failed, and the frame
\* is still at the head of the queue with another behind it
DuplicateTransmissionWitness ==
    /\ ret.kind = "False"
    /\ Len(output_messages) = 2
    /\ written = Head(output_messages)
    /\ pin_writes = <<TRUE, FALSE>>
    /\ transmit_mode_pin = FALSE

====
